---- MODULE Spec2Model ----
(***************************************************************************)
(* Model of pincer.core.http.HTTPClient: the retrying request pipeline     *)
(* (__send / __handle_response).  Every logical request is a coroutine;    *)
(* its position is pc[r], and one action is one run of the coroutine from  *)
(* one suspension point (await) to the next.                               *)
(***************************************************************************)
EXTENDS Integers, Sequences, FiniteSets, TLC

\* ------------------------------------------------------------------ bounds
\* largest ceiling (ttl constructor argument) a client is built with
MaxCeiling == 5
\* the counters of 429 responses saturate here
Max429 == 2
\* the counters of network calls and of 5xx responses saturate here
MaxCount == MaxCeiling + 2
\* the clock of the rate limiter stops here
MaxTime == 1
\* answers of 429 the server gives one request in the rate-limited runs
GateRetries == 1

\* the logical requests (calls of one HTTP verb) the model tracks
Reqs == {1, 2}

\* --------------------------------------------------------- program values
\* Python None for an Optional value: <<>>; a present value v: <<v>>
None == <<>>
Some(v) == <<v>>

\* default of (await res.json()).get("retry_after", 40)
DefaultRetryAfter == 40

\* statuses the server answers with
Statuses == {200, 204, 304, 400, 401, 402, 403, 404, 405, 422, 429, 500, 503}

\* retry_after field of a 429 body: absent, or a number of seconds
RetryAfterVals == {None, Some(1)}

\* rate-limit metadata of the response headers: bucket identifier, remaining
\* count, reset-after duration, scope, and the retry-after of a global limit
BucketIds == {"b1", "b2"}
ResetAfterVals == {1}
\* remaining counts a response reports: exhausted or not
RemainingVals == {0, 1}
Limits ==
    {[bucket |-> b, remaining |-> n, reset_after |-> d, scope |-> "user",
      retry_after |-> 0] : b \in BucketIds, n \in RemainingVals, d \in ResetAfterVals}
    \cup {[bucket |-> "b1", remaining |-> 0, reset_after |-> d, scope |-> "global",
      retry_after |-> d] : d \in ResetAfterVals}

\* res.reason, the reason phrase of the status line
Reasons == {"r1", "r2"}

\* a response: its status, its reason phrase, the retry_after of its json
\* body, and the rate-limit metadata of its headers (None: the headers carry
\* none)
Responses ==
    {[status |-> s, retry_after |-> ra, limit |-> None, reason |-> "r1"] :
        s \in Statuses \ {429}, ra \in {None}}
    \cup {[status |-> 429, retry_after |-> ra, limit |-> None, reason |-> "r1"] :
            ra \in RetryAfterVals}

\* responses that carry rate-limit metadata
LimitedStatuses == {200, 429}
LimitedResponses ==
    {[status |-> s, retry_after |-> None, limit |-> l, reason |-> "r1"] :
        s \in LimitedStatuses, l \in {None} \cup {Some(x) : x \in Limits}}

NoResponse == [status |-> 0, retry_after |-> None, limit |-> None, reason |-> ""]

\* the keys of self.__http_exceptions
MappedStatuses == {304, 400, 401, 403, 404, 405, 429}

\* the routes (endpoints) requests are sent to
Routes == {"A", "B"}

\* header and query-parameter dicts a caller passes: a value may be None
ReasonHeaders == ("X-Audit-Log-Reason" :> Some("r")) @@ ("X-Trace" :> None)
TypeHeaders == ("Content-Type" :> Some("text/plain"))
HeaderArgs == {None, Some(ReasonHeaders), Some(TypeHeaders)}
ParamArgs == {None, Some(("limit" :> Some("1")) @@ ("after" :> None))}

\* payloads: a dict (to be serialized) and what json.dumps makes of it
DictData == [kind |-> "dict", id |-> 1]
DataArgs == {Some(DictData)}
ContentTypes == {"application/json", "multipart/form-data"}

\* the calls of __send the verbs make for one route:
\* delete(route, headers), get(route, params), head(route) / options(route),
\* patch / post / put(route, data, content_type, headers)
Calls(route) ==
    {[method |-> "DELETE", endpoint |-> route, content_type |-> "application/json",
      data |-> None, headers |-> h, params |-> None] : h \in HeaderArgs}
    \cup {[method |-> "GET", endpoint |-> route, content_type |-> "application/json",
      data |-> None, headers |-> None, params |-> p] : p \in ParamArgs}
    \cup {[method |-> "HEAD", endpoint |-> route, content_type |-> "application/json",
      data |-> None, headers |-> None, params |-> None]}
    \cup {[method |-> "POST", endpoint |-> route, content_type |-> ct,
      data |-> d, headers |-> h, params |-> None] :
            ct \in ContentTypes, d \in DataArgs, h \in HeaderArgs}

NoCall == [method |-> "", endpoint |-> "", content_type |-> "",
           data |-> None, headers |-> None, params |-> None]

NoWire == [method |-> "", url |-> "", data |-> None, headers |-> <<>>, params |-> None]

VARIABLES
    max_ttl,    \* HTTPClient.max_ttl, the ceiling
    pc,         \* pc[r]: where the coroutine of request r is suspended
    arg,        \* arg[r]: the _ttl argument of the pending __send call
    ttl,        \* ttl[r]: local ttl of the running __send / _ttl of __handle_response
    res,        \* res[r]: the last response received
    outcome,    \* outcome[r]: what the caller got: "none" until the request ends
    calls,      \* calls[r]: network calls made (history, saturating)
    n5xx,       \* n5xx[r]: 5xx responses received (history, saturating)
    n429,       \* n429[r]: 429 responses received (history, saturating)
    slept,      \* slept[r]: duration of the current / last asyncio.sleep
    req,        \* req[r]: the arguments the verb of request r is called with
    cur,        \* cur[r]: the arguments of the pending / running __send call
    wire,       \* wire[r]: what the last network call carried
    first,      \* first[r]: what the first network call carried (history)
    recorded,   \* recorded[r]: calls of save_response_bucket (history, saturating)
    acquired,   \* acquired[r]: returns of wait_until_not_ratelimited (history, saturating)
    now,        \* the clock
    bucket_map, \* RateLimiter: (endpoint, method) -> bucket identifier
    buckets,    \* RateLimiter: bucket identifier -> [remaining, reset_at]
    global_until, \* RateLimiter: no request may be sent before this time
    admitted,   \* admitted[r]: r passed the gate after the last update of its route (history)
    http_exceptions, \* self.__http_exceptions: status -> args of the one error object
    scope,      \* where the `async with` block around the client is
    closes,     \* calls of self.__session.close() (history, saturating)
    exc         \* the exception the `async with` body left with ("none": it returned)

pipe == <<max_ttl, pc, arg, ttl, res, outcome, calls, n5xx, n429, slept>>
hist == <<req, cur, wire, first, recorded, acquired>>
gate == <<now, bucket_map, buckets, global_until, admitted>>
life == <<scope, closes, exc>>
vars == <<pipe, hist, gate, http_exceptions, life>>

\* ---------------------------------------------------------------- helpers
Inc(n, cap) == IF n < cap THEN n + 1 ELSE n

\* Python `a or b` for an Optional[int] a: None and 0 are falsy
OrTtlNoneOnly(a, b) == IF a = None THEN b ELSE a[1]
OrTtl(a, b) == IF a = None \/ a[1] = 0 THEN b ELSE a[1]

\* the exhaustion test of __send: `if ttl == 0`
ExhaustedOffByOne(t) == t <= 1
Exhausted(t) == t = 0

\* aiohttp ClientResponse.ok: status below 400
Ok(status) == status < 400

\* self.__http_exceptions.get(res.status): the mapped error, or "None"
HttpExceptionsNo405(status) ==
    CASE status = 304 -> "NotModifiedError"
      [] status = 400 -> "BadRequestError"
      [] status = 401 -> "UnauthorizedError"
      [] status = 403 -> "ForbiddenError"
      [] status = 404 -> "NotFoundError"
      [] status = 429 -> "RateLimitError"
      [] OTHER -> "None"
HttpExceptions(status) ==
    CASE status = 304 -> "NotModifiedError"
      [] status = 400 -> "BadRequestError"
      [] status = 401 -> "UnauthorizedError"
      [] status = 403 -> "ForbiddenError"
      [] status = 404 -> "NotFoundError"
      [] status = 405 -> "MethodNotAllowedError"
      [] status = 429 -> "RateLimitError"
      [] OTHER -> "None"

\* the success branch: `return` for 204, `return await res.json()` otherwise
ReturnValueAlwaysJson(status) == "ReturnJson"
ReturnValue(status) == IF status = 204 THEN "ReturnNone" ELSE "ReturnJson"

\* isinstance(exception, RateLimitError)
IsRateLimitErrorNever(exception) == FALSE
IsRateLimitError(exception) == exception = "RateLimitError"

\* timeout = (await res.json()).get("retry_after", 40)
TimeoutFixed(r) == DefaultRetryAfter
Timeout(r) == IF r.retry_after = None THEN DefaultRetryAfter ELSE r.retry_after[1]

\* retry_in = 1 + (self.max_ttl - _ttl) * 2
RetryInFlat(ceiling, t) == 1 + (ceiling - t)
RetryIn(ceiling, t) == 1 + (ceiling - t) * 2

\* HTTPError.__init__(reason) run on an error object: the object carries
\* that reason from then on (ClientError(status, reason))
InitError(reason) == Some(reason)

\* the _ttl passed to the retry after a 5xx: _ttl - 1
ServerErrorTtl(t) == Some(t - 1)

\* the _ttl passed to the retry after a 429: the argument is left out
RateLimitTtl(t) == None

Is5xx(status) == status >= 500 /\ status < 600

\* json.dumps(data) when isinstance(data, dict); anything else is left alone
Dumps(d) == [kind |-> "str", id |-> d.id]
Serialize(data) ==
    IF data # None /\ data[1].kind = "dict" THEN Some(Dumps(data[1])) ELSE data

\* utils.conversion.remove_none on an Optional dict: drops the None values
RemoveNone(d) ==
    IF d = None THEN None
    ELSE Some([k \in {x \in DOMAIN d[1] : d[1][x] # None} |-> d[1][k]])

\* Python `d or {}` for an Optional dict: None and the empty dict are falsy
OrEmpty(d) == IF d = None \/ DOMAIN d[1] = {} THEN <<>> ELSE d[1]

\* {"Content-Type": content_type, **(remove_none(headers) or {})}: the keys of
\* the second dict win
SentHeaders(content_type, headers) ==
    OrEmpty(RemoveNone(headers)) @@ ("Content-Type" :> Some(content_type))

\* the arguments of method(url, data=, headers=, params=)
WireOf(method, c) ==
    [method |-> method, url |-> c.endpoint, data |-> c.data,
     headers |-> SentHeaders(c.content_type, c.headers),
     params |-> RemoveNone(c.params)]

\* the retry calls of __handle_response: self.__send(method, endpoint,
\* content_type=content_type, data=data[, _ttl=...]); headers and params are
\* not passed on and take their default None
RetryCall(c) ==
    [method |-> c.method, endpoint |-> c.endpoint, content_type |-> c.content_type,
     data |-> c.data, headers |-> None, params |-> None]

\* the key of the rate limiter for a call: (endpoint, method)
RouteKey(c) == <<c.endpoint, c.method>>

\* RateGate: the global throttle is active
GlobalActive(t, g) == t < g

\* RateGate: the bucket of the route shows remaining == 0 and its reset
\* deadline has not passed
BucketExhausted(t, m, b, k) ==
    /\ k \in DOMAIN m
    /\ b[m[k]].remaining = 0
    /\ t < b[m[k]].reset_at

\* RateGate.acquire (wait_until_not_ratelimited) returns
Admissible(t, m, b, g, k) == ~GlobalActive(t, g) /\ ~BucketExhausted(t, m, b, k)

\* RateGate.record (save_response_bucket): the route is keyed to the bucket
\* identifier of the response, the bucket of that identifier is replaced, and a
\* global scope sets the global deadline; without metadata nothing changes
RecordMap(m, k, limit) ==
    IF limit = None THEN m ELSE (k :> limit[1].bucket) @@ m
RecordBuckets(t, b, limit) ==
    IF limit = None THEN b
    ELSE (limit[1].bucket :> [remaining |-> limit[1].remaining,
                              reset_at |-> t + limit[1].reset_after]) @@ b
RecordGlobal(t, g, limit) ==
    IF limit # None /\ limit[1].scope = "global" THEN t + limit[1].retry_after ELSE g

\* ------------------------------------------------------------------- Init
\* state after HTTPClient(token, ttl = c); request 1 is about to be issued
Init ==
    /\ max_ttl \in 0..MaxCeiling
    /\ pc = [r \in Reqs |-> IF r = 1 THEN "idle" ELSE "absent"]
    /\ arg = [r \in Reqs |-> None]
    /\ ttl = [r \in Reqs |-> 0]
    /\ res = [r \in Reqs |-> NoResponse]
    /\ outcome = [r \in Reqs |-> "none"]
    /\ calls = [r \in Reqs |-> 0]
    /\ n5xx = [r \in Reqs |-> 0]
    /\ n429 = [r \in Reqs |-> 0]
    /\ slept = [r \in Reqs |-> 0]
    /\ \E c \in Calls("A") : req = [r \in Reqs |-> IF r = 1 THEN c ELSE NoCall]
    /\ cur = [r \in Reqs |-> NoCall]
    /\ wire = [r \in Reqs |-> NoWire]
    /\ first = [r \in Reqs |-> NoWire]
    /\ recorded = [r \in Reqs |-> 0]
    /\ acquired = [r \in Reqs |-> 0]
    /\ now = 0
    /\ bucket_map = <<>>
    /\ buckets = <<>>
    /\ global_until = 0
    /\ admitted = [r \in Reqs |-> FALSE]
    /\ http_exceptions = [s \in MappedStatuses |-> None]
    /\ scope = "none"
    /\ closes = 0
    /\ exc = "none"

\* ---------------------------------------------------------------- actions
\* get/post/put/patch/delete/head/options: return await self.__send(method, route, ...)
\* (no verb passes _ttl)
Verb(r) ==
    /\ pc[r] = "idle"
    /\ pc' = [pc EXCEPT ![r] = "send"]
    /\ arg' = [arg EXCEPT ![r] = None]
    /\ cur' = [cur EXCEPT ![r] = req[r]]
    /\ UNCHANGED <<max_ttl, ttl, res, outcome, calls, n5xx, n429, slept>>
    /\ UNCHANGED <<req, wire, first, recorded, acquired>>
    /\ UNCHANGED gate
    /\ UNCHANGED <<http_exceptions, life>>

\* __send up to the await of the rate limiter: ttl = _ttl or self.max_ttl;
\* if ttl == 0: raise ServerError("Maximum amount of retries ...");
\* if isinstance(data, dict): data = dumps(data)
SendEnterSkipsGate(r) ==
    /\ pc[r] = "send"
    /\ LET t == OrTtl(arg[r], max_ttl) IN
        /\ ttl' = [ttl EXCEPT ![r] = t]
        /\ IF Exhausted(t)
           THEN /\ pc' = [pc EXCEPT ![r] = "done"]
                /\ outcome' = [outcome EXCEPT ![r] = "ServerError:MaxRetries"]
                /\ UNCHANGED cur
           ELSE /\ pc' = [pc EXCEPT ![r] = IF calls[r] = 0 THEN "gate" ELSE "net"]
                /\ cur' = [cur EXCEPT ![r].data = Serialize(@)]
                /\ UNCHANGED outcome
    /\ UNCHANGED <<max_ttl, arg, res, calls, n5xx, n429, slept>>
    /\ UNCHANGED <<req, wire, first, recorded, acquired>>
    /\ UNCHANGED gate
    /\ UNCHANGED <<http_exceptions, life>>
SendEnter(r) ==
    /\ pc[r] = "send"
    /\ LET t == OrTtl(arg[r], max_ttl) IN
        /\ ttl' = [ttl EXCEPT ![r] = t]
        /\ IF Exhausted(t)
           THEN /\ pc' = [pc EXCEPT ![r] = "done"]
                /\ outcome' = [outcome EXCEPT ![r] = "ServerError:MaxRetries"]
                /\ UNCHANGED cur
           ELSE /\ pc' = [pc EXCEPT ![r] = "gate"]
                /\ cur' = [cur EXCEPT ![r].data = Serialize(@)]
                /\ UNCHANGED outcome
    /\ UNCHANGED <<max_ttl, arg, res, calls, n5xx, n429, slept>>
    /\ UNCHANGED <<req, wire, first, recorded, acquired>>
    /\ UNCHANGED gate
    /\ UNCHANGED <<http_exceptions, life>>

\* await self.__rate_limiter.wait_until_not_ratelimited(endpoint, method) returns
AcquireOneAtATime(r) ==
    /\ pc[r] = "gate"
    /\ \A q \in Reqs \ {r} : pc[q] \notin {"gate", "sleep429", "sleep5xx"}
    /\ Admissible(now, bucket_map, buckets, global_until, RouteKey(cur[r]))
    /\ pc' = [pc EXCEPT ![r] = "net"]
    /\ acquired' = [acquired EXCEPT ![r] = Inc(@, MaxCount)]
    /\ admitted' = [admitted EXCEPT ![r] = TRUE]
    /\ UNCHANGED <<max_ttl, arg, ttl, res, outcome, calls, n5xx, n429, slept>>
    /\ UNCHANGED <<req, cur, wire, first, recorded>>
    /\ UNCHANGED <<now, bucket_map, buckets, global_until>>
    /\ UNCHANGED <<http_exceptions, life>>
AcquireNotAwaited(r) ==
    /\ pc[r] = "gate"
    /\ pc' = [pc EXCEPT ![r] = "net"]
    /\ acquired' = [acquired EXCEPT ![r] = Inc(@, MaxCount)]
    /\ admitted' = [admitted EXCEPT ![r] = TRUE]
    /\ UNCHANGED <<max_ttl, arg, ttl, res, outcome, calls, n5xx, n429, slept>>
    /\ UNCHANGED <<req, cur, wire, first, recorded>>
    /\ UNCHANGED <<now, bucket_map, buckets, global_until>>
    /\ UNCHANGED <<http_exceptions, life>>
Acquire(r) ==
    /\ pc[r] = "gate"
    /\ Admissible(now, bucket_map, buckets, global_until, RouteKey(cur[r]))
    /\ pc' = [pc EXCEPT ![r] = "net"]
    /\ acquired' = [acquired EXCEPT ![r] = Inc(@, MaxCount)]
    /\ admitted' = [admitted EXCEPT ![r] = TRUE]
    /\ UNCHANGED <<max_ttl, arg, ttl, res, outcome, calls, n5xx, n429, slept>>
    /\ UNCHANGED <<req, cur, wire, first, recorded>>
    /\ UNCHANGED <<now, bucket_map, buckets, global_until>>
    /\ UNCHANGED <<http_exceptions, life>>

\* the network call method(url, data=data, headers={...}, params=...) is made
Transmit(r) ==
    /\ wire' = [wire EXCEPT ![r] = WireOf(cur[r].method, cur[r])]
    /\ first' = [first EXCEPT ![r] =
                    IF calls[r] = 0 THEN WireOf(cur[r].method, cur[r]) ELSE @]
    /\ calls' = [calls EXCEPT ![r] = Inc(@, MaxCount)]

\* async with method(url, ...) as res: the server answers
Respond(r) ==
    /\ pc[r] = "net"
    /\ Transmit(r)
    /\ \E rsp \in Responses :
        /\ res' = [res EXCEPT ![r] = rsp]
        /\ n5xx' = [n5xx EXCEPT ![r] = IF Is5xx(rsp.status) THEN Inc(@, MaxCount) ELSE @]
        /\ n429' = [n429 EXCEPT ![r] = IF rsp.status = 429 THEN Inc(@, Max429) ELSE @]
    /\ pc' = [pc EXCEPT ![r] = "handle"]
    /\ UNCHANGED <<max_ttl, arg, ttl, outcome, slept>>
    /\ UNCHANGED <<req, cur, recorded, acquired>>
    /\ UNCHANGED gate
    /\ UNCHANGED <<http_exceptions, life>>

\* async with method(url, ...) raises a connection-level error: nothing in
\* __send or __handle_response catches it, it unwinds to the caller of the verb
TransportFailureRetried(r) ==
    /\ pc[r] = "net"
    /\ Transmit(r)
    /\ slept' = [slept EXCEPT ![r] = RetryIn(max_ttl, ttl[r])]
    /\ pc' = [pc EXCEPT ![r] = "sleep5xx"]
    /\ UNCHANGED <<max_ttl, arg, ttl, res, outcome, n5xx, n429>>
    /\ UNCHANGED <<req, cur, recorded, acquired>>
    /\ UNCHANGED gate
    /\ UNCHANGED <<http_exceptions, life>>
TransportFailure(r) ==
    /\ pc[r] = "net"
    /\ Transmit(r)
    /\ pc' = [pc EXCEPT ![r] = "done"]
    /\ outcome' = [outcome EXCEPT ![r] = "ClientConnectionError"]
    /\ UNCHANGED <<max_ttl, arg, ttl, res, n5xx, n429, slept>>
    /\ UNCHANGED <<req, cur, recorded, acquired>>
    /\ UNCHANGED gate
    /\ UNCHANGED <<http_exceptions, life>>

\* res.headers as passed to save_response_bucket: the rate-limit metadata of
\* this response, None when the server sent none
HeadersDefaulted(rsp) ==
    IF rsp.limit = None
    THEN Some([bucket |-> "b1", remaining |-> 0, reset_after |-> 0,
               scope |-> "user", retry_after |-> 0])
    ELSE rsp.limit
Headers(rsp) == rsp.limit

\* self.__rate_limiter.save_response_bucket(endpoint, method, res.headers),
\* the first statement of __handle_response after the debug log
SaveResponseBucketOkOnly(r) ==
    IF Ok(res[r].status)
    THEN /\ recorded' = [recorded EXCEPT ![r] = Inc(@, MaxCount)]
         /\ bucket_map' = RecordMap(bucket_map, RouteKey(cur[r]), Headers(res[r]))
         /\ buckets' = RecordBuckets(now, buckets, Headers(res[r]))
         /\ global_until' = RecordGlobal(now, global_until, Headers(res[r]))
         /\ admitted' = [q \in Reqs |->
                IF Headers(res[r]) # None /\ RouteKey(cur[q]) = RouteKey(cur[r])
                THEN FALSE ELSE admitted[q]]
    ELSE UNCHANGED <<recorded, bucket_map, buckets, global_until, admitted>>
SaveResponseBucket(r) ==
    /\ recorded' = [recorded EXCEPT ![r] = Inc(@, MaxCount)]
    /\ bucket_map' = RecordMap(bucket_map, RouteKey(cur[r]), Headers(res[r]))
    /\ buckets' = RecordBuckets(now, buckets, Headers(res[r]))
    /\ global_until' = RecordGlobal(now, global_until, Headers(res[r]))
    /\ admitted' = [q \in Reqs |->
            IF Headers(res[r]) # None /\ RouteKey(cur[q]) = RouteKey(cur[r])
            THEN FALSE ELSE admitted[q]]

\* __handle_response up to its first await sleep, return or raise
HandleResponseNoSleep(r) ==
    /\ pc[r] = "handle"
    /\ SaveResponseBucket(r)
    /\ LET status == res[r].status
           exception == HttpExceptions(status)
       IN IF Ok(status)
          THEN \* 204: return; otherwise: return await res.json()
               /\ pc' = [pc EXCEPT ![r] = "done"]
               /\ outcome' = [outcome EXCEPT ![r] = ReturnValue(status)]
               /\ UNCHANGED <<slept, http_exceptions>>
          ELSE IF exception # "None"
          THEN IF IsRateLimitError(exception)
               THEN /\ slept' = [slept EXCEPT ![r] = Timeout(res[r])]
                    /\ pc' = [pc EXCEPT ![r] = "net"]
                    /\ UNCHANGED <<outcome, http_exceptions>>
               ELSE \* exception.__init__(res.reason); raise exception: the
                    \* caller gets the one object kept in the dict
                    /\ http_exceptions' =
                            [http_exceptions EXCEPT ![status] = InitError(res[r].reason)]
                    /\ pc' = [pc EXCEPT ![r] = "done"]
                    /\ outcome' = [outcome EXCEPT ![r] = exception]
                    /\ UNCHANGED slept
          ELSE \* "status code is guaranteed to be 5xx"
               /\ slept' = [slept EXCEPT ![r] = RetryIn(max_ttl, ttl[r])]
               /\ pc' = [pc EXCEPT ![r] = "net"]
               /\ UNCHANGED <<outcome, http_exceptions>>
    /\ UNCHANGED <<max_ttl, arg, ttl, res, calls, n5xx, n429>>
    /\ UNCHANGED <<req, cur, wire, first, acquired, now>>
    /\ UNCHANGED life
HandleResponse(r) ==
    /\ pc[r] = "handle"
    /\ SaveResponseBucket(r)
    /\ LET status == res[r].status
           exception == HttpExceptions(status)
       IN IF Ok(status)
          THEN \* 204: return; otherwise: return await res.json()
               /\ pc' = [pc EXCEPT ![r] = "done"]
               /\ outcome' = [outcome EXCEPT ![r] = ReturnValue(status)]
               /\ UNCHANGED <<slept, http_exceptions>>
          ELSE IF exception # "None"
          THEN IF IsRateLimitError(exception)
               THEN /\ slept' = [slept EXCEPT ![r] = Timeout(res[r])]
                    /\ pc' = [pc EXCEPT ![r] = "sleep429"]
                    /\ UNCHANGED <<outcome, http_exceptions>>
               ELSE \* exception.__init__(res.reason); raise exception: the
                    \* caller gets the one object kept in the dict
                    /\ http_exceptions' =
                            [http_exceptions EXCEPT ![status] = InitError(res[r].reason)]
                    /\ pc' = [pc EXCEPT ![r] = "done"]
                    /\ outcome' = [outcome EXCEPT ![r] = exception]
                    /\ UNCHANGED slept
          ELSE \* "status code is guaranteed to be 5xx"
               /\ slept' = [slept EXCEPT ![r] = RetryIn(max_ttl, ttl[r])]
               /\ pc' = [pc EXCEPT ![r] = "sleep5xx"]
               /\ UNCHANGED <<outcome, http_exceptions>>
    /\ UNCHANGED <<max_ttl, arg, ttl, res, calls, n5xx, n429>>
    /\ UNCHANGED <<req, cur, wire, first, acquired, now>>
    /\ UNCHANGED life

\* await sleep(timeout) is over: return await self.__send(method, endpoint,
\* content_type=content_type, data=data)
WakeRateLimited(r) ==
    /\ pc[r] = "sleep429"
    /\ arg' = [arg EXCEPT ![r] = RateLimitTtl(ttl[r])]
    /\ cur' = [cur EXCEPT ![r] = RetryCall(@)]
    /\ pc' = [pc EXCEPT ![r] = "send"]
    /\ UNCHANGED <<max_ttl, ttl, res, outcome, calls, n5xx, n429, slept>>
    /\ UNCHANGED <<req, wire, first, recorded, acquired>>
    /\ UNCHANGED gate
    /\ UNCHANGED <<http_exceptions, life>>

\* await sleep(retry_in) is over: return await self.__send(..., _ttl=_ttl - 1, ...)
WakeServerErrorSharedBudget(r) ==
    /\ pc[r] = "sleep5xx"
    /\ max_ttl' = IF max_ttl > 0 THEN max_ttl - 1 ELSE 0
    /\ arg' = [arg EXCEPT ![r] = None]
    /\ cur' = [cur EXCEPT ![r] = RetryCall(@)]
    /\ pc' = [pc EXCEPT ![r] = "send"]
    /\ UNCHANGED <<ttl, res, outcome, calls, n5xx, n429, slept>>
    /\ UNCHANGED <<req, wire, first, recorded, acquired>>
    /\ UNCHANGED gate
    /\ UNCHANGED <<http_exceptions, life>>
WakeServerError(r) ==
    /\ pc[r] = "sleep5xx"
    /\ arg' = [arg EXCEPT ![r] = ServerErrorTtl(ttl[r])]
    /\ cur' = [cur EXCEPT ![r] = RetryCall(@)]
    /\ pc' = [pc EXCEPT ![r] = "send"]
    /\ UNCHANGED <<max_ttl, ttl, res, outcome, calls, n5xx, n429, slept>>
    /\ UNCHANGED <<req, wire, first, recorded, acquired>>
    /\ UNCHANGED gate
    /\ UNCHANGED <<http_exceptions, life>>

\* one step of the coroutine of request r
Step(r) ==
    \/ Verb(r)
    \/ SendEnter(r)
    \/ Acquire(r)
    \/ Respond(r)
    \/ TransportFailure(r)
    \/ HandleResponse(r)
    \/ WakeRateLimited(r)
    \/ WakeServerError(r)

Next == \E r \in Reqs : Step(r)

Spec == Init /\ [][Next]_vars

\* every coroutine step that can run does run: the event loop resumes a ready
\* coroutine, a sleep ends, and the transport call completes
FairSpec == Spec /\ \A r \in Reqs : WF_vars(Step(r))

\* ------------------------------------------------- the rate-limited runs
\* the server answers with rate-limit metadata in the headers; it sends a
\* request at most GateRetries answers of 429
RespondLimited(r) ==
    /\ pc[r] = "net"
    /\ Transmit(r)
    /\ \E rsp \in LimitedResponses :
        /\ rsp.status = 429 => n429[r] < GateRetries
        /\ res' = [res EXCEPT ![r] = rsp]
        /\ n429' = [n429 EXCEPT ![r] = IF rsp.status = 429 THEN Inc(@, Max429) ELSE @]
    /\ pc' = [pc EXCEPT ![r] = "handle"]
    /\ UNCHANGED <<max_ttl, arg, ttl, outcome, slept, n5xx>>
    /\ UNCHANGED <<req, cur, recorded, acquired>>
    /\ UNCHANGED gate
    /\ UNCHANGED <<http_exceptions, life>>

\* time passes
Tick ==
    /\ now < MaxTime
    /\ now' = now + 1
    /\ UNCHANGED <<pipe, hist, bucket_map, buckets, global_until, admitted>>
    /\ UNCHANGED <<http_exceptions, life>>

\* the default of the ttl argument of HTTPClient.__init__
DefaultTtl == 5

HeadCall(route) ==
    [method |-> "HEAD", endpoint |-> route, content_type |-> "application/json",
     data |-> None, headers |-> None, params |-> None]

\* two concurrent requests, on the same route or on two routes
GateInit ==
    /\ max_ttl = DefaultTtl
    /\ pc = [r \in Reqs |-> "idle"]
    /\ arg = [r \in Reqs |-> None]
    /\ ttl = [r \in Reqs |-> 0]
    /\ res = [r \in Reqs |-> NoResponse]
    /\ outcome = [r \in Reqs |-> "none"]
    /\ calls = [r \in Reqs |-> 0]
    /\ n5xx = [r \in Reqs |-> 0]
    /\ n429 = [r \in Reqs |-> 0]
    /\ slept = [r \in Reqs |-> 0]
    /\ \E route \in Routes :
        req = [r \in Reqs |-> IF r = 1 THEN HeadCall("A") ELSE HeadCall(route)]
    /\ cur = [r \in Reqs |-> NoCall]
    /\ wire = [r \in Reqs |-> NoWire]
    /\ first = [r \in Reqs |-> NoWire]
    /\ recorded = [r \in Reqs |-> 0]
    /\ acquired = [r \in Reqs |-> 0]
    /\ now = 0
    /\ bucket_map = <<>>
    /\ buckets = <<>>
    /\ global_until = 0
    /\ admitted = [r \in Reqs |-> FALSE]
    /\ http_exceptions = [s \in MappedStatuses |-> None]
    /\ scope = "none"
    /\ closes = 0
    /\ exc = "none"

GateStep(r) ==
    \/ Verb(r)
    \/ SendEnter(r)
    \/ Acquire(r)
    \/ RespondLimited(r)
    \/ HandleResponse(r)
    \/ WakeRateLimited(r)

GateNext == (\E r \in Reqs : GateStep(r)) \/ Tick

GateSpec == GateInit /\ [][GateNext]_vars

\* ------------------------------------------------- the concurrent runs
\* retried answers (429, 5xx) the server gives one request in these runs
PairRetries == 1

\* the statuses of these runs: a success, a mapped client error, a rate
\* limit and a server error
PairStatuses == {200, 404, 429, 500}

\* the rate-limit metadata of these runs: none, an exhausted bucket, an open one
PairLimits ==
    {None,
     Some([bucket |-> "b1", remaining |-> 0, reset_after |-> 2, scope |-> "user",
           retry_after |-> 0]),
     Some([bucket |-> "b2", remaining |-> 1, reset_after |-> 2, scope |-> "user",
           retry_after |-> 0])}

PairResponses ==
    {[status |-> s, retry_after |-> None, limit |-> l, reason |-> "r1"] :
        s \in PairStatuses, l \in PairLimits}
    \cup {[status |-> 404, retry_after |-> None, limit |-> l, reason |-> x] :
            l \in PairLimits, x \in Reasons}

\* async with method(url, ...) as res: the server answers one of two
\* concurrent requests
RespondPair(r) ==
    /\ pc[r] = "net"
    /\ Transmit(r)
    /\ \E rsp \in PairResponses :
        /\ (rsp.status = 429 \/ Is5xx(rsp.status)) => calls[r] < PairRetries
        /\ res' = [res EXCEPT ![r] = rsp]
        /\ n5xx' = [n5xx EXCEPT ![r] = IF Is5xx(rsp.status) THEN Inc(@, MaxCount) ELSE @]
        /\ n429' = [n429 EXCEPT ![r] = IF rsp.status = 429 THEN Inc(@, Max429) ELSE @]
    /\ pc' = [pc EXCEPT ![r] = "handle"]
    /\ UNCHANGED <<max_ttl, arg, ttl, outcome, slept>>
    /\ UNCHANGED <<req, cur, recorded, acquired>>
    /\ UNCHANGED gate
    /\ UNCHANGED <<http_exceptions, life>>

\* two concurrent requests of one client, on the same route or on two routes
PairInit ==
    /\ max_ttl \in {1, DefaultTtl}
    /\ pc = [r \in Reqs |-> "idle"]
    /\ arg = [r \in Reqs |-> None]
    /\ ttl = [r \in Reqs |-> 0]
    /\ res = [r \in Reqs |-> NoResponse]
    /\ outcome = [r \in Reqs |-> "none"]
    /\ calls = [r \in Reqs |-> 0]
    /\ n5xx = [r \in Reqs |-> 0]
    /\ n429 = [r \in Reqs |-> 0]
    /\ slept = [r \in Reqs |-> 0]
    /\ \E route \in Routes :
        req = [r \in Reqs |-> IF r = 1 THEN HeadCall("A") ELSE HeadCall(route)]
    /\ cur = [r \in Reqs |-> NoCall]
    /\ wire = [r \in Reqs |-> NoWire]
    /\ first = [r \in Reqs |-> NoWire]
    /\ recorded = [r \in Reqs |-> 0]
    /\ acquired = [r \in Reqs |-> 0]
    /\ now = 0
    /\ bucket_map = <<>>
    /\ buckets = <<>>
    /\ global_until = 0
    /\ admitted = [r \in Reqs |-> FALSE]
    /\ http_exceptions = [s \in MappedStatuses |-> None]
    /\ scope = "none"
    /\ closes = 0
    /\ exc = "none"

PairStep(r) ==
    \/ Verb(r)
    \/ SendEnter(r)
    \/ Acquire(r)
    \/ RespondPair(r)
    \/ HandleResponse(r)
    \/ WakeRateLimited(r)
    \/ WakeServerError(r)

PairNext == \E r \in Reqs : PairStep(r)

PairSpec == PairInit /\ [][PairNext]_vars

\* ------------------------------------------- the client as a scoped resource
\* async with HTTPClient(token) as client: __aenter__ returns self
Aenter ==
    /\ scope = "out"
    /\ scope' = "body"
    /\ UNCHANGED <<closes, exc>>
    /\ UNCHANGED <<pipe, hist, gate, http_exceptions>>

\* HTTPClient.close: await self.__session.close()
Close == closes' = Inc(closes, MaxCount)

\* __aexit__(exc_type, exc, tb): await self.close(); it returns None, so an
\* exception of the body goes on to the code around the block
AexitOnReturnOnly(e) ==
    /\ IF e = "none" THEN Close ELSE UNCHANGED closes
    /\ scope' = "left"
    /\ exc' = e
Aexit(e) ==
    /\ Close
    /\ scope' = "left"
    /\ exc' = e

\* the body of the block awaits one request; the steps of the request
BodyStep(r) == scope = "body" /\ Step(r)

\* the body ends normally: before a request was made, or after one ended
\* (with a value, or with an error the body caught)
BodyReturns ==
    /\ scope = "body"
    /\ \A r \in Reqs : pc[r] \in {"absent", "idle", "done"}
    /\ Aexit("none")
    /\ UNCHANGED <<pipe, hist, gate, http_exceptions>>

\* the body raises: the error of its request leaves the block
BodyRaises ==
    /\ scope = "body"
    /\ \E r \in Reqs :
        /\ pc[r] = "done"
        /\ outcome[r] \notin {"none", "ReturnNone", "ReturnJson"}
        /\ Aexit(outcome[r])
    /\ UNCHANGED <<pipe, hist, gate, http_exceptions>>

ScopeInit ==
    /\ max_ttl = DefaultTtl
    /\ pc = [r \in Reqs |-> IF r = 1 THEN "idle" ELSE "absent"]
    /\ arg = [r \in Reqs |-> None]
    /\ ttl = [r \in Reqs |-> 0]
    /\ res = [r \in Reqs |-> NoResponse]
    /\ outcome = [r \in Reqs |-> "none"]
    /\ calls = [r \in Reqs |-> 0]
    /\ n5xx = [r \in Reqs |-> 0]
    /\ n429 = [r \in Reqs |-> 0]
    /\ slept = [r \in Reqs |-> 0]
    /\ req = [r \in Reqs |-> IF r = 1 THEN HeadCall("A") ELSE NoCall]
    /\ cur = [r \in Reqs |-> NoCall]
    /\ wire = [r \in Reqs |-> NoWire]
    /\ first = [r \in Reqs |-> NoWire]
    /\ recorded = [r \in Reqs |-> 0]
    /\ acquired = [r \in Reqs |-> 0]
    /\ now = 0
    /\ bucket_map = <<>>
    /\ buckets = <<>>
    /\ global_until = 0
    /\ admitted = [r \in Reqs |-> FALSE]
    /\ http_exceptions = [s \in MappedStatuses |-> None]
    /\ scope = "out"
    /\ closes = 0
    /\ exc = "none"

ScopeNext ==
    \/ Aenter
    \/ \E r \in Reqs : BodyStep(r)
    \/ BodyReturns
    \/ BodyRaises

ScopeSpec == ScopeInit /\ [][ScopeNext]_vars

TypeOK ==
    /\ max_ttl \in 0..MaxCeiling
    /\ pc \in [Reqs -> {"absent", "idle", "send", "gate", "net", "handle",
                        "sleep429", "sleep5xx", "done"}]
    /\ \A r \in Reqs : calls[r] \in 0..MaxCount /\ n5xx[r] \in 0..MaxCount
                       /\ n429[r] \in 0..Max429

\* ----------------------------------------------------------------- claims
\* every response request r has received so far was a 5xx (counters exact)
Only5xx(r) == n429[r] = 0 /\ n5xx[r] = calls[r] /\ calls[r] < MaxCount

SuccessStatuses == {200, 204}

Returned(status) == IF status = 204 THEN "ReturnNone" ELSE "ReturnJson"

\* request r is over and stays as it is
Final(r) ==
    pc[r] = "done" =>
        /\ pc'[r] = "done" /\ outcome'[r] = outcome[r]
        /\ calls'[r] = calls[r] /\ slept'[r] = slept[r]

\* C1: with ceiling C >= 1 and only 5xx answers (no 429), the request ends
\* with the "Maximum amount of retries" ServerError after exactly C responses:
\* no (C+1)-th network call is prepared or made.
C1_ExhaustedAfterCeiling ==
    \A r \in Reqs :
        (max_ttl >= 1 /\ Only5xx(r)) =>
            /\ calls[r] <= max_ttl
            /\ calls[r] = max_ttl => pc[r] \in {"handle", "sleep5xx", "send", "done"}
            /\ (calls[r] = max_ttl /\ pc[r] = "done") =>
                    outcome[r] = "ServerError:MaxRetries"

\* C2: with ceiling C >= 1, C-1 answers of 5xx do not end the request, and a
\* success status answered to the C-th attempt is returned to the caller.
C2_SuccessOnLastAttempt ==
    \A r \in Reqs :
        /\ (max_ttl >= 1 /\ Only5xx(r) /\ calls[r] < max_ttl) => pc[r] # "done"
        /\ ( /\ max_ttl >= 1 /\ n429[r] = 0
             /\ calls[r] = max_ttl /\ n5xx[r] = max_ttl - 1
             /\ res[r].status \in SuccessStatuses /\ pc[r] # "handle" ) =>
                /\ pc[r] = "done"
                /\ outcome[r] = Returned(res[r].status)

C2_Witness ==
    /\ max_ttl >= 3 /\ pc[1] = "done" /\ n429[1] = 0
    /\ calls[1] = max_ttl /\ n5xx[1] = max_ttl - 1
    /\ outcome[1] = "ReturnJson"

\* C3: N answers of 429 followed by a success status return that success, for
\* every N; RateLimitError is never what the caller gets.
C3_RateLimitAbsorbed ==
    \A r \in Reqs :
        /\ outcome[r] # "RateLimitError"
        /\ ( /\ n5xx[r] = 0 /\ calls[r] = n429[r] + 1
             /\ res[r].status \in SuccessStatuses /\ pc[r] # "handle" ) =>
                /\ pc[r] = "done"
                /\ outcome[r] = Returned(res[r].status)

C3_Witness ==
    /\ pc[1] = "done" /\ n429[1] = Max429 /\ calls[1] = Max429 + 1
    /\ n5xx[1] = 0 /\ outcome[1] = "ReturnJson"

\* C4: the attempt that follows a 429 runs with the ttl of the attempt that
\* was throttled.
C4_RateLimitKeepsTtl ==
    [][\A r \in Reqs :
        (pc[r] = "send" /\ res[r].status = 429 /\ pc'[r] # "send") =>
            ttl'[r] = ttl[r]]_vars

\* C5: the sleep after a 5xx lasts 1 + (ceiling - ttl) * 2 seconds, ttl being
\* the budget of the attempt that failed; the k-th (from 0, k < ceiling) of
\* successive 5xx answers waits 1 + 2k: 1, 3, 5, 7, 9 for ceiling 5.
C5_BackoffDelay ==
    \A r \in Reqs :
        (pc[r] = "sleep5xx" /\ Is5xx(res[r].status)) =>
            /\ slept[r] = 1 + (max_ttl - ttl[r]) * 2
            /\ (Only5xx(r) /\ n5xx[r] <= max_ttl) => slept[r] = 1 + 2 * (n5xx[r] - 1)
            /\ (Only5xx(r) /\ max_ttl = 5 /\ n5xx[r] <= 5) =>
                    slept[r] = <<1, 3, 5, 7, 9>>[n5xx[r]]

C5_Witness ==
    /\ max_ttl = 5 /\ pc[1] = "sleep5xx" /\ Only5xx(1)
    /\ n5xx[1] = 5 /\ ttl[1] = 1 /\ slept[1] = 9

\* C6: a request that gets only finitely many 429 answers eventually reaches
\* a terminal state.
C6_Terminates ==
    \A r \in Reqs :
        (pc[r] # "absent") =>
            ((<>[](res[r].status # 429)) => <>(pc[r] = "done"))

\* C7: an answer of 400, 401, 403, 404 or 405 ends the request with the error
\* mapped to that status, without a sleep and without another network call,
\* whatever the ttl.
C7_Kind(status) ==
    CASE status = 400 -> "BadRequestError"
      [] status = 401 -> "UnauthorizedError"
      [] status = 403 -> "ForbiddenError"
      [] status = 404 -> "NotFoundError"
      [] status = 405 -> "MethodNotAllowedError"

C7_MappedErrorTerminal ==
    [][\A r \in Reqs :
        /\ (pc[r] = "handle" /\ res[r].status \in {400, 401, 403, 404, 405}) =>
            /\ pc'[r] = "done"
            /\ outcome'[r] = C7_Kind(res[r].status)
            /\ slept'[r] = slept[r]
            /\ calls'[r] = calls[r]
        /\ Final(r)]_vars

C7_Witness ==
    /\ pc[1] = "done" /\ outcome[1] = "MethodNotAllowedError"
    /\ res[1].status = 405 /\ ttl[1] < max_ttl /\ n5xx[1] >= 1

\* C8: an answer of 304 ends the request with NotModifiedError.
C8_NotModifiedRaised ==
    \A r \in Reqs :
        (res[r].status = 304 /\ pc[r] # "handle") =>
            (pc[r] = "done" /\ outcome[r] = "NotModifiedError")

\* C9: every 4xx answer other than 429 ends the request with an error, without
\* a retry and without a backoff sleep.
C9_ClientErrorTerminal ==
    [][\A r \in Reqs :
        ( /\ pc[r] = "handle"
          /\ res[r].status >= 400 /\ res[r].status < 500 /\ res[r].status # 429 ) =>
            /\ pc'[r] = "done"
            /\ outcome'[r] \notin {"none", "ReturnNone", "ReturnJson"}
            /\ slept'[r] = slept[r]]_vars

C11_RetrySameAttempt ==
    \A r \in Reqs : calls[r] >= 1 => wire[r] = first[r]

\* C12: save_response_bucket has run once for every response received, as
\* soon as the response is handled: before a sleep starts, before the retry
\* reaches the gate and before the request ends.
C12_RecordedEveryResponse ==
    \A r \in Reqs :
        calls[r] < MaxCount =>
            recorded[r] = calls[r]
                            - (IF pc[r] = "handle" THEN 1 ELSE 0)
                            - (IF outcome[r] = "ClientConnectionError" THEN 1 ELSE 0)

C12_Witness ==
    /\ pc[1] = "sleep429" /\ calls[1] = 3 /\ recorded[1] = 3
    /\ n5xx[1] >= 1 /\ n429[1] >= 1

\* C13: every network call, the first and every retry, is made after its own
\* return of wait_until_not_ratelimited, and the gate is passed only after the
\* previous response was recorded.
C13_GateBeforeEveryCall ==
    \A r \in Reqs :
        calls[r] < MaxCount - 1 =>
            /\ acquired[r] = calls[r] + (IF pc[r] = "net" THEN 1 ELSE 0)
            /\ pc[r] \in {"gate", "net"} => recorded[r] = calls[r]

C13_Witness ==
    /\ pc[1] = "net" /\ calls[1] = 2 /\ acquired[1] = 3 /\ recorded[1] = 2

\* C14: __send entered with a ttl of 0 (a retry passing _ttl = 0, or no _ttl
\* with a ceiling of 0) raises the "Maximum amount of retries" ServerError at
\* once, before the gate, a network call or a sleep.
C14_ZeroTtlFails ==
    [][\A r \in Reqs :
        ( /\ pc[r] = "send" /\ pc'[r] # "send"
          /\ (arg[r] = Some(0) \/ (arg[r] = None /\ max_ttl = 0)) ) =>
            /\ pc'[r] = "done"
            /\ outcome'[r] = "ServerError:MaxRetries"]_vars

\* C15: the Content-Type header of every network call is the content_type
\* argument of the request, whatever headers the caller passed.
C15_ContentTypeKept ==
    \A r \in Reqs :
        calls[r] >= 1 => wire[r].headers["Content-Type"] = Some(req[r].content_type)

\* C16: after a 429 the request sleeps for the retry_after of the body, or
\* for 40 seconds when the body has none, whatever the ttl and the earlier
\* attempts, and no network call is made before the sleep.
C16_RateLimitSleep ==
    [][\A r \in Reqs :
        (pc[r] = "handle" /\ res[r].status = 429) =>
            /\ pc'[r] = "sleep429"
            /\ slept'[r] = (IF res[r].retry_after = None THEN 40
                            ELSE res[r].retry_after[1])
            /\ calls'[r] = calls[r]]_vars

C16_Witness ==
    /\ pc[1] = "sleep429" /\ slept[1] = 1 /\ res[1].retry_after = Some(1)
    /\ n5xx[1] >= 1 /\ ttl[1] < max_ttl

\* C17: a request ends with exactly one of a value and an error: a 204 gives
\* the empty result, any other response below 400 its parsed body, and every
\* other end of the request is a raised error; nothing is delivered before.
C17_Errors ==
    {"BadRequestError", "UnauthorizedError", "ForbiddenError", "NotFoundError",
     "MethodNotAllowedError", "ServerError:MaxRetries", "ClientConnectionError"}

C18_GlobalThrottleBlocks ==
    [][\A r \in Reqs :
        /\ (pc[r] # "net" /\ pc'[r] = "net") => ~(now < global_until)
        /\ ( /\ pc[r] = "handle" /\ pc'[r] # "handle"
             /\ res[r].limit # None /\ res[r].limit[1].scope = "global" ) =>
                global_until' = now + res[r].limit[1].retry_after]_vars

C18_Witness ==
    /\ req[2].endpoint = "B" /\ pc[2] = "gate"
    /\ res[1].limit # None /\ res[1].limit[1].scope = "global" /\ pc[1] # "handle"
    /\ now < global_until
    /\ <<"B", "HEAD">> \in DOMAIN bucket_map
    /\ buckets[bucket_map[<<"B", "HEAD">>]].remaining > 0

\* C19: while the bucket of a route shows remaining = 0 and its reset
\* deadline has not passed, no request of that route goes on to its network
\* call.
C19_Blocked(r) ==
    LET k == <<cur[r].endpoint, cur[r].method>> IN
        /\ k \in DOMAIN bucket_map
        /\ buckets[bucket_map[k]].remaining = 0
        /\ now < buckets[bucket_map[k]].reset_at

C19_ExhaustedBucketBlocks ==
    [][\A r \in Reqs : (pc[r] # "net" /\ pc'[r] = "net") => ~C19_Blocked(r)]_vars

C19_Witness ==
    /\ req[2].endpoint = "A"
    /\ pc[1] = "gate" /\ pc[2] = "gate"
    /\ C19_Blocked(1) /\ C19_Blocked(2)

\* C20: of the requests of one route that passed the gate since the last
\* update of that route, at most `remaining` are in their network call at the
\* same time, and at most one when remaining = 0.
C20_InFlight(k) ==
    Cardinality({r \in Reqs :
        pc[r] = "net" /\ admitted[r] /\ <<cur[r].endpoint, cur[r].method>> = k})

C20_InFlightWithinRemaining ==
    \A k \in DOMAIN bucket_map :
        LET rem == buckets[bucket_map[k]].remaining IN
            C20_InFlight(k) <= (IF rem > 0 THEN rem ELSE 1)

\* C21: save_response_bucket called with a response that carries no
\* rate-limit metadata changes nothing: the buckets, the route-to-bucket
\* mapping and the global deadline stay as they are.
C21_RecordWithoutMetadata ==
    [][\A r \in Reqs :
        (pc[r] = "handle" /\ pc'[r] # "handle" /\ res[r].limit = None) =>
            /\ bucket_map' = bucket_map
            /\ buckets' = buckets
            /\ global_until' = global_until]_vars

C21_Witness ==
    /\ pc[1] = "done" /\ res[1].limit = None /\ recorded[1] = 2
    /\ <<"A", "HEAD">> \in DOMAIN bucket_map
    /\ buckets[bucket_map[<<"A", "HEAD">>]].remaining = 0
    /\ global_until > 0

\* C22: a response with rate-limit metadata keys its route to the bucket
\* identifier it carries, whatever identifier the route had before, and
\* nothing else changes the mapping; from then on the gate decides for that
\* route by the bucket of the new identifier only: a request passes only
\* when that bucket is not exhausted, and can pass whenever it is not (and
\* no global deadline is pending), whatever the earlier bucket says.
C22_NewBucketOpen(k) ==
    k \in DOMAIN bucket_map =>
        ~(buckets[bucket_map[k]].remaining = 0 /\ now < buckets[bucket_map[k]].reset_at)

C22_Rekeyed ==
    [][\A r \in Reqs :
        LET k == <<cur[r].endpoint, cur[r].method>> IN
        /\ (pc[r] = "handle" /\ pc'[r] # "handle" /\ res[r].limit # None) =>
            /\ k \in DOMAIN bucket_map'
            /\ bucket_map'[k] = res[r].limit[1].bucket
            /\ res[r].limit[1].bucket \in DOMAIN buckets'
            /\ buckets'[res[r].limit[1].bucket] =
                    [remaining |-> res[r].limit[1].remaining,
                     reset_at |-> now + res[r].limit[1].reset_after]
            /\ \A j \in DOMAIN bucket_map \ {k} : bucket_map'[j] = bucket_map[j]
        /\ (pc[r] = "handle" /\ pc'[r] # "handle" /\ res[r].limit = None) =>
            bucket_map' = bucket_map
        /\ (\A q \in Reqs : ~(pc[q] = "handle" /\ pc'[q] # "handle")) =>
            bucket_map' = bucket_map
        /\ (pc[r] = "gate" /\ pc'[r] = "net") => C22_NewBucketOpen(k)
        /\ (pc[r] = "gate" /\ ~(now < global_until) /\ C22_NewBucketOpen(k)) =>
            ENABLED Acquire(r)]_vars

C22_Witness ==
    /\ req[2].endpoint = "A"
    /\ res[1].limit # None /\ res[1].limit[1].bucket = "b1" /\ recorded[1] = 1
    /\ <<"A", "HEAD">> \in DOMAIN bucket_map
    /\ bucket_map[<<"A", "HEAD">>] = "b2" /\ buckets["b2"].remaining > 0
    /\ "b1" \in DOMAIN buckets
    /\ buckets["b1"].remaining = 0 /\ now < buckets["b1"].reset_at
    /\ pc[1] = "net" /\ acquired[1] = 2

\* C24: leaving the `async with` block, by a return of the body or by an
\* exception of the body, calls close() on the session exactly once: no call
\* before the block is left, one call when it is left, none after.
C24_ClosedOnExit ==
    [][/\ (scope # "left" /\ scope' = "left") =>
            /\ scope = "body"
            /\ closes = 0 /\ closes' = 1
       /\ (scope = "body" /\ scope' # "body") => scope' = "left"
       /\ scope' # "left" => closes' = 0
       /\ scope = "left" => (scope' = "left" /\ closes' = closes)]_vars

C24_Witness ==
    /\ scope = "left" /\ closes = 1 /\ exc = "NotFoundError"
    /\ pc[1] = "done" /\ calls[1] >= 2

\* C25: with a ceiling C >= 1 every attempt that gets past the start of
\* __send runs with a ttl in 1..C: __send entered with no ttl or with 0 takes
\* C and goes on to the gate, so after a 5xx at ttl = 1 the ttl is C again;
\* under 5xx answers only, the attempt that follows n answers runs with
\* C - (n mod C): C, C-1, ..., 1, C, C-1, ...
C25_Attempting == {"gate", "net", "handle", "sleep429", "sleep5xx"}

C26_Retried(status) == status = 429 \/ Is5xx(status)

C26_RetryOrder ==
    [][\A r \in Reqs :
        /\ (pc[r] = "handle" /\ C26_Retried(res[r].status)) =>
            /\ pc'[r] \in {"handle", "sleep429", "sleep5xx"}
            /\ pc'[r] # "handle" =>
                (calls[r] < MaxCount => recorded'[r] = recorded[r] + 1)
        /\ pc[r] \in {"sleep429", "sleep5xx"} =>
            /\ pc'[r] \in {pc[r], "send"}
            /\ calls'[r] = calls[r] /\ acquired'[r] = acquired[r]
            /\ wire'[r] = wire[r]
        /\ (pc[r] = "send" /\ pc'[r] # "send") => pc'[r] \in {"gate", "done"}
        /\ (pc[r] = "gate" /\ pc'[r] # "gate") =>
            (pc'[r] = "net" /\ calls'[r] = calls[r])
        /\ calls'[r] # calls[r] => pc[r] = "net"
        /\ (pc[r] # "net" /\ pc'[r] = "net") => pc[r] = "gate"
        /\ (pc[r] # "gate" /\ pc'[r] = "gate") => pc[r] = "send"
        /\ (pc[r] # "send" /\ pc'[r] = "send") =>
            pc[r] \in {"idle", "sleep429", "sleep5xx"}]_vars

C26_Witness ==
    /\ pc[1] = "net" /\ calls[1] = 2 /\ n5xx[1] = 1 /\ n429[1] = 1
    /\ recorded[1] = 2 /\ acquired[1] = 3 /\ slept[1] > 0

\* C23: a request is suspended on its own: while one request waits at the
\* gate of an exhausted route, or sleeps after a 429 or a 5xx, a request of
\* another route is never held up by it: it can take its next step in every
\* state short of its end, and it can pass the gate whenever no global
\* deadline is pending and the bucket of its own route is not exhausted.
\* Leaving the gate is always going on to the network call, never an error.
C23_Exhausted(r) ==
    LET k == <<cur[r].endpoint, cur[r].method>> IN
        /\ k \in DOMAIN bucket_map
        /\ buckets[bucket_map[k]].remaining = 0
        /\ now < buckets[bucket_map[k]].reset_at

C23_Suspended(r) ==
    \/ pc[r] \in {"sleep429", "sleep5xx"}
    \/ pc[r] = "gate" /\ C23_Exhausted(r)

C23_SuspensionPerRequest ==
    [][\A r \in Reqs :
        /\ \A q \in Reqs \ {r} :
            ( /\ C23_Suspended(r)
              /\ req[q].endpoint # req[r].endpoint
              /\ pc[q] \notin {"absent", "done"}
              /\ pc[q] = "gate" => (~(now < global_until) /\ ~C23_Exhausted(q)) ) =>
                ENABLED PairStep(q)
        /\ (pc[r] = "gate" /\ pc'[r] # "gate") =>
            (pc'[r] = "net" /\ outcome'[r] = "none")]_vars

C23_Witness ==
    /\ req[2].endpoint = "B"
    /\ pc[1] = "gate" /\ C23_Exhausted(1) /\ n5xx[1] = 1
    /\ <<"B", "HEAD">> \in DOMAIN bucket_map
    /\ buckets[bucket_map[<<"B", "HEAD">>]].remaining > 0
    /\ pc[2] = "done" /\ outcome[2] = "ReturnJson" /\ n429[2] = 1

\* C27: the error a caller got keeps the reason of its own response: after
\* a request has ended with the error of a mapped 4xx status, the reason that
\* error carries is the reason of the response of that request, whatever
\* other requests get afterwards.
C27_Raised(r) ==
    /\ pc[r] = "done"
    /\ res[r].status \in MappedStatuses \ {304, 429}
    /\ outcome[r] = HttpExceptions(res[r].status)

C27_ErrorsIndependent ==
    \A r \in Reqs :
        C27_Raised(r) => http_exceptions[res[r].status] = Some(res[r].reason)

\* C28: the retry budgets of two requests are independent: no step changes
\* the ceiling of the client, a step of one request leaves the ttl and the
\* pending ttl argument of the other as they are, and the first attempt of
\* every request, made with no ttl argument, runs with the ceiling.
C28_BudgetsIndependent ==
    [][/\ max_ttl' = max_ttl
       /\ \A r \in Reqs : \A q \in Reqs \ {r} :
            pc'[r] # pc[r] => (ttl'[q] = ttl[q] /\ arg'[q] = arg[q])
       /\ \A r \in Reqs :
            /\ (pc[r] = "idle" /\ pc'[r] # "idle") => arg'[r] = None
            /\ (pc[r] = "send" /\ calls[r] = 0 /\ pc'[r] # "send") =>
                    ttl'[r] = max_ttl]_vars

C28_Witness ==
    /\ max_ttl = DefaultTtl
    /\ pc[1] = "gate" /\ calls[1] = 1 /\ n5xx[1] = 1 /\ ttl[1] = max_ttl - 1
    /\ pc[2] = "gate" /\ calls[2] = 0 /\ ttl[2] = max_ttl

====
